---- MODULE Spec2Model ----
(***************************************************************************)
(* Multi-source search server: the QueryOrchestrator (relevance routing,   *)
(* concurrent fan-out with progress events, ranking and deduplication).    *)
(*                                                                         *)
(* Strings whose content matters (title, source) are sequences of          *)
(* characters, so that the template literal `${title}-${source}` is a      *)
(* real concatenation.  relevanceScore is a number; only the sign of a     *)
(* difference of two scores is ever used, so scores are integers (tenths). *)
(***************************************************************************)
EXTENDS Integers, Sequences, FiniteSets, TLC

\* ------------------------------------------------------------------ bounds

\* Largest number of data sources handed to the QueryOrchestrator constructor.
MaxBackends == 2
\* Longest result array one data source's search resolves with.
MaxLen == 2
\* Longest array handed to rankResults when it is checked on its own.
MaxPool == 3
\* Longest array handed to formatResults.
MaxFmtLen == 3
\* The maxResults values handed to formatResults go from -MaxLimit to MaxLimit.
MaxLimit == 3
\* Most connect and disconnect calls made on one data source.
MaxCalls == 3
MaxSearches == 2
MaxCallers == 2
MaxStoredId == 2

\* ------------------------------------------------------------- value sets

Titles == { <<"a">>, <<"a", "-", "b">> }
Sources == { <<"c">>, <<"b", "-", "c">> }
Scores == { 5, 9 }
Contents == { "x", "y" }

\* SearchResult (IDataSource.ts): the fields the orchestrator reads or passes on.
SearchResult == [title : Titles, source : Sources, relevanceScore : Scores, content : Contents]

BoundedSeq(S, n) == UNION { [1..k -> S] : k \in 0..n }

Range(s) == { s[i] : i \in 1..Len(s) }

\* The results a data source answers with during an orchestrated search: two
\* with the same (title, source) and different scores, and a third with another
\* title whose score ties with the better of the two.  They carry the optional
\* url (one has none) and the opaque metadata.
SearchUniverse ==
    { [title |-> <<"a">>, source |-> <<"c">>, relevanceScore |-> 5, content |-> "x",
       url |-> "u", metadata |-> "m1"],
      [title |-> <<"a">>, source |-> <<"c">>, relevanceScore |-> 9, content |-> "y",
       metadata |-> "m2"],
      [title |-> <<"a", "-", "b">>, source |-> <<"c">>, relevanceScore |-> 9, content |-> "x",
       url |-> "v", metadata |-> "m1"] }

\* The arrays one search resolves with: no array holds the same object twice
\* (two data sources may still answer with equal results).
SearchValues ==
    { v \in BoundedSeq(SearchUniverse, MaxLen) : Cardinality(Range(v)) = Len(v) }

\* The settled states of the promise returned by source.search(query).
SearchOutcomes ==
    { [state |-> "rejected", value |-> <<>>] }
      \cup { [state |-> "fulfilled", value |-> v] : v \in SearchValues }

\* ----------------------------------------------------------------- queries

\* A query is a sequence of characters.
DocumentedQuery ==
    << "H", "o", "w", " ", "m", "a", "n", "y", " ", "u", "s", "e", "r", "s", " ", "d", "o", " ", "w", "e", " ", "h", "a", "v", "e", " ", "u", "s", "i", "n", "g", " ", "D", "a", "t", "a", "d", "o", "g", "?" >>

Queries ==
    { DocumentedQuery,
      << "h", "e", "l", "l", "o" >>,
      << "S", "l", "a", "c", "k", " ", "d", "o", "c" >>,
      << "d", "a", "t", "a", "d", "o", "g", " ", "c", "h", "a", "t" >> }

UpperChars == << "A", "B", "C", "D", "E", "F", "G", "H", "I", "J", "K", "L", "M", "N", "O", "P", "Q", "R", "S", "T", "U", "V", "W", "X", "Y", "Z" >>

LowerChars == << "a", "b", "c", "d", "e", "f", "g", "h", "i", "j", "k", "l", "m", "n", "o", "p", "q", "r", "s", "t", "u", "v", "w", "x", "y", "z" >>

\* String.prototype.toLowerCase
ToLowerCase(str) ==
    [i \in 1..Len(str) |->
       IF \E k \in 1..Len(UpperChars) : UpperChars[k] = str[i]
       THEN LowerChars[CHOOSE k \in 1..Len(UpperChars) : UpperChars[k] = str[i]]
       ELSE str[i]]

\* String.prototype.includes
Includes(str, searchString) ==
    \E i \in 0..(Len(str) - Len(searchString)) :
       SubSeq(str, i + 1, i + Len(searchString)) = searchString

\* keywords.some(kw => query.toLowerCase().includes(kw))
SomeKeyword(keywords, q) == \E kw \in keywords : Includes(ToLowerCase(q), kw)

SlackKeywords ==
    { << "s", "a", "i", "d" >>,
      << "m", "e", "n", "t", "i", "o", "n", "e", "d" >>,
      << "d", "i", "s", "c", "u", "s", "s", "i", "o", "n" >>,
      << "c", "o", "n", "v", "e", "r", "s", "a", "t", "i", "o", "n" >>,
      << "m", "e", "s", "s", "a", "g", "e" >>,
      << "c", "h", "a", "t" >>,
      << "s", "l", "a", "c", "k" >> }

GoogleDocsKeywords ==
    { << "d", "o", "c", "u", "m", "e", "n", "t" >>,
      << "d", "o", "c" >>,
      << "d", "o", "c", "u", "m", "e", "n", "t", "a", "t", "i", "o", "n" >>,
      << "g", "u", "i", "d", "e" >>,
      << "s", "p", "e", "c" >>,
      << "d", "e", "s", "i", "g", "n" >>,
      << "g", "o", "o", "g", "l", "e" >> }

DatabaseKeywords ==
    { << "u", "s", "e", "r", "s" >>,
      << "d", "a", "t", "a" >>,
      << "c", "o", "u", "n", "t" >>,
      << "h", "o", "w", " ", "m", "a", "n", "y" >>,
      << "m", "e", "t", "r", "i", "c", "s" >>,
      << "a", "n", "a", "l", "y", "t", "i", "c", "s" >>,
      << "d", "a", "t", "a", "d", "o", "g" >>,
      << "d", "a", "t", "a", "b", "a", "s", "e" >> }

\* ------------------------------------------------------------------ state

VARIABLES
    dataSources,      \* the constructor argument: registered data sources, in order
    isRelevantFor,    \* data source -> what its isRelevantFor(query) returns
    relevanceThrows,  \* data source -> its isRelevantFor(query) throws instead
    onProgress,       \* "undefined" or "callback": the optional second argument
    pc,               \* position of search(): "idle", "map", "await", "done"
    sourcesToSearch,  \* the array computed at line 23
    mapIndex,         \* index of the element sourcesToSearch.map is at
    unitPc,           \* data source -> position of its async callback
    unitValue,        \* data source -> the array its callback returned
    searchPromise,    \* data source -> the promise source.search(query) returned
    jobs,             \* continuations waiting in the microtask queue, oldest first
    invoked,          \* data sources search() was called on, in call order
    events,           \* SearchProgress objects delivered to onProgress, in order
    outcome,          \* "pending", "returned" or "rejected": the promise of search()
    returned,         \* the array search() resolved with
    rankPc,           \* "idle", "call", "returned": the last rankResults call
    rankArg,          \* its argument
    rankRet,          \* its return value
    fmtPc,            \* "idle", "call", "done": the last formatResults call
    fmtResults,       \* its first argument
    fmtMaxResults,    \* its second argument: [given |-> FALSE] when left out
    fmtRet,           \* what it returned, or that it threw
    vendorCall,       \* shipped data source -> how its vendor call ended
    toolArgs,         \* the arguments of the search-all-sources request
    toolResponse,     \* what its handler returned
    query,            \* the query of the request or of the search call under study
    backendPc,        \* "idle", "call", "done": a shipped data source's search
    backendSource,    \* the data source it is called on
    backendVendor,    \* how its vendor calls end
    backendRet,       \* the settled promise it returned
    dataSource,       \* a data source object: its class and its fields
    lifecycleCalls,   \* the connect and disconnect calls made on data sources
    mainPc,           \* position of the server process: main() and its SIGINT handler
    sigint,           \* the process has received SIGINT
    exitCode,         \* "none" while the process runs, else how it ended
    sinkThrows,       \* the statuses for which onProgress(progress) throws
    searchCalls,      \* search() calls the orchestrator has finished before this one
    file,             \* the users array in the JSON file of JSONDataSource
    createPc,         \* caller -> position of its createUser call
    createArg,        \* caller -> the user it passed
    createUsers,      \* caller -> the local array users of its call
    createRet         \* caller -> the id its call returned, 0 before that

vars == << dataSources, isRelevantFor, relevanceThrows, onProgress, pc, sourcesToSearch, mapIndex,
           unitPc, unitValue, searchPromise, jobs, invoked, events, outcome,
           returned, rankPc, rankArg, rankRet,
           fmtPc, fmtResults, fmtMaxResults, fmtRet,
           vendorCall, toolArgs, toolResponse,
           query, backendPc, backendSource, backendVendor, backendRet,
           dataSource, lifecycleCalls, mainPc, sigint, exitCode,
           sinkThrows, searchCalls, file, createPc, createArg, createUsers, createRet >>

rankVars == << rankPc, rankArg, rankRet >>

fmtVars == << fmtPc, fmtResults, fmtMaxResults, fmtRet >>

toolVars == << toolArgs, toolResponse >>

backendVars == << backendPc, backendSource, backendVendor, backendRet >>

lifecycleVars == << dataSource, lifecycleCalls >>

mainVars == << mainPc, sigint, exitCode >>

storeVars == << file, createPc, createArg, createUsers, createRet >>

\* What no step of QueryOrchestrator.search and no call of rankResults writes.
frameVars == << fmtVars, relevanceThrows, sinkThrows, searchCalls, storeVars, vendorCall, toolVars, query, backendVars,
               lifecycleVars, mainVars >>

orchVars == << dataSources, isRelevantFor, onProgress, pc, sourcesToSearch, mapIndex,
               unitPc, unitValue, searchPromise, jobs, invoked, events, outcome,
               returned >>

\* ------------------------------------------------------- pure functions

\* Array.prototype.filter with ds => ds.isRelevantFor(query)
relevantSources == SelectSeq(dataSources, LAMBDA ds : isRelevantFor[ds])

\* Variants of line 23 with a slip: no fallback; no filtering.
SelectSources_NoFallback == relevantSources

SelectSources_NoFilter == dataSources

\* line 23: relevantSources.length > 0 ? relevantSources : this.dataSources
SelectSources == IF Len(relevantSources) > 0 THEN relevantSources ELSE dataSources

\* Variant of the flattening that puts each array in front of the earlier ones.
RECURSIVE Flat_Prepending(_)
Flat_Prepending(arrays) ==
    IF arrays = <<>> THEN <<>> ELSE Flat_Prepending(Tail(arrays)) \o Head(arrays)

\* Array.prototype.flat on an array of arrays
RECURSIVE Flat(_)
Flat(arrays) ==
    IF arrays = <<>> THEN <<>> ELSE Head(arrays) \o Flat(Tail(arrays))

\* Variant of the comparator with the operands swapped.
compareFn_Ascending(a, b) == a.relevanceScore - b.relevanceScore

\* the comparator of line 71
compareFn(a, b) == b.relevanceScore - a.relevanceScore

\* Array.prototype.sort is stable: x goes behind every element that does not
\* compare greater than it.
RECURSIVE InsertSorted(_, _)
InsertSorted(x, s) ==
    IF s = <<>> THEN <<x>>
    ELSE IF compareFn(Head(s), x) <= 0
         THEN <<Head(s)>> \o InsertSorted(x, Tail(s))
         ELSE <<x>> \o s

RECURSIVE SortInto(_, _)
SortInto(s, acc) ==
    IF s = <<>> THEN acc ELSE SortInto(Tail(s), InsertSorted(Head(s), acc))

ArraySort(results) == SortInto(results, <<>>)

\* line 78: `${result.title}-${result.source}`
DedupKey(result) == result.title \o <<"-">> \o result.source

\* lines 74-85: the loop over sorted with the seen set
RECURSIVE DedupLoop(_, _, _)
DedupLoop(sorted, seen, unique) ==
    IF sorted = <<>> THEN unique
    ELSE LET result == Head(sorted)
             key == DedupKey(result)
         IN  IF key \notin seen
             THEN DedupLoop(Tail(sorted), seen \cup {key}, Append(unique, result))
             ELSE DedupLoop(Tail(sorted), seen, unique)

\* Variant of rankResults that rescales the scores so that the best is 10.
rankResults_Renormalizes(results) ==
    LET unique == DedupLoop(ArraySort(results), {}, <<>>)
    IN  [k \in 1..Len(unique) |->
           [unique[k] EXCEPT !.relevanceScore =
              (10 * unique[k].relevanceScore) \div unique[1].relevanceScore]]

rankResults(results) == DedupLoop(ArraySort(results), {}, <<>>)

\* Variant of the join that is fulfilled by the first callback to finish.
PromiseAll_FirstWins(sources) ==
    IF \E s \in Range(sources) : unitPc[s] = "rejected" THEN "rejected"
    ELSE IF sources = <<>> \/ \E s \in Range(sources) : unitPc[s] = "fulfilled"
         THEN "fulfilled"
    ELSE "pending"

\* Variant of the join with Promise.any: fulfilled by the first callback to be
\* fulfilled, rejected when none is left that could be (so on an empty array).
PromiseAll_Any(sources) ==
    IF \E s \in Range(sources) : unitPc[s] = "fulfilled" THEN "fulfilled"
    ELSE IF \A s \in Range(sources) : unitPc[s] = "rejected" THEN "rejected"
    ELSE "pending"

\* Promise.all over the callbacks' promises: rejected as soon as one is,
\* fulfilled once all are.
PromiseAll(sources) ==
    IF \E s \in Range(sources) : unitPc[s] = "rejected" THEN "rejected"
    ELSE IF \A s \in Range(sources) : unitPc[s] = "fulfilled" THEN "fulfilled"
    ELSE "pending"

\* onProgress is given and throws when called with a progress of this status
SinkThrowsOn(status) == onProgress = "callback" /\ status \in sinkThrows

\* the progress objects a call onProgress(progress) hands to the sink
Deliver(progress) == IF onProgress = "callback" THEN <<progress>> ELSE <<>>

\* lines 29-31
SearchingEvent(source) == [source |-> source, status |-> "searching"]

\* Variants of the try block with a slip: completion is not reported; the
\* count reported is taken after deduplication.
TryContinuation_NoEvent(source, results) ==
    [ emit |-> <<>>, state |-> "fulfilled", value |-> results ]

TryContinuation_CountsDeduplicated(source, results) ==
    [ emit  |-> Deliver([source |-> source, status |-> "completed",
                         resultCount |-> Len(rankResults(results))]),
      state |-> "fulfilled",
      value |-> results ]

\* Variant of the try block whose return statement sits inside the
\* if (onProgress) branch: without a sink the callback returns nothing.
TryContinuation_ReturnsInSinkBranch(source, results) ==
    [ emit  |-> Deliver([source |-> source, status |-> "completed",
                         resultCount |-> Len(results)]),
      state |-> "fulfilled",
      value |-> IF onProgress = "callback" THEN results ELSE <<>> ]

\* lines 36-44: the rest of the try block once the search has resolved
TryContinuation(source, results) ==
    [ emit  |-> Deliver([source |-> source, status |-> "completed",
                         resultCount |-> Len(results)]),
      state |-> "fulfilled",
      value |-> results ]

\* Variants of the catch block with a slip: the failure is reported as a
\* completed search; the error is thrown again.
CatchBlock_ReportsCompleted(source) ==
    [ emit  |-> Deliver([source |-> source, status |-> "completed", resultCount |-> 0]),
      state |-> "fulfilled",
      value |-> <<>> ]

CatchBlock_Rethrows(source) ==
    [ emit  |-> Deliver([source |-> source, status |-> "error"]),
      state |-> "rejected",
      value |-> <<>> ]

\* lines 45-53: the catch block
CatchBlock(source) ==
    [ emit  |-> Deliver([source |-> source, status |-> "error"]),
      state |-> "fulfilled",
      value |-> <<>> ]

\* lines 33-53: what the callback does once the search has settled.  The
\* sink's throw at line 37 is caught at line 45 like a failed search; its
\* throw at line 49 leaves the callback, whose promise is rejected.
Continuation(source) ==
    LET try == TryContinuation(source, searchPromise[source].value)
        catch == CatchBlock(source)
        resolved == searchPromise[source].state = "fulfilled"
    IN  IF resolved /\ ~SinkThrowsOn("completed")
        THEN try
        ELSE [ emit  |-> (IF resolved THEN try.emit ELSE <<>>) \o catch.emit,
               state |-> IF SinkThrowsOn("error") THEN "rejected" ELSE catch.state,
               value |-> IF SinkThrowsOn("error") THEN <<>> ELSE catch.value ]

\* ---------------------------------------------------------------- Init

\* formatResults has not been called.
IdleFormat ==
    /\ fmtPc = "idle"
    /\ fmtResults = <<>>
    /\ fmtMaxResults = [given |-> FALSE]
    /\ fmtRet = [kind |-> "none"]

\* No search-all-sources request has come in.
IdleTool ==
    /\ vendorCall = << >>
    /\ toolArgs = [called |-> FALSE]
    /\ toolResponse = [kind |-> "none"]

\* No data source object is under study and no lifecycle call has been made;
\* main() is not under study.
IdleLifecycle ==
    /\ dataSource = [class |-> "none"]
    /\ lifecycleCalls = <<>>
    /\ mainPc = "idle"
    /\ sigint = FALSE
    /\ exitCode = "none"

\* No search of a shipped data source is under study.
IdleBackend ==
    /\ backendPc = "idle"
    /\ backendSource = 0
    /\ backendVendor = [state |-> "none"]
    /\ backendRet = [state |-> "none", value |-> <<>>]

\* No createUser call is under study.
IdleStore ==
    /\ file = <<>>
    /\ createPc = << >>
    /\ createArg = << >>
    /\ createUsers = << >>
    /\ createRet = << >>

InitOrchestrator(n) ==
    /\ dataSources = [i \in 1..n |-> i]
    /\ pc = "idle"
    /\ sourcesToSearch = <<>>
    /\ mapIndex = 0
    /\ unitPc = [s \in 1..n |-> "none"]
    /\ unitValue = [s \in 1..n |-> <<>>]
    /\ searchPromise = [s \in 1..n |-> [state |-> "none", value |-> <<>>]]
    /\ jobs = <<>>
    /\ invoked = <<>>
    /\ events = <<>>
    /\ outcome = "pending"
    /\ returned = <<>>

Init ==
    /\ \E n \in 0..MaxBackends :
         /\ InitOrchestrator(n)
         /\ isRelevantFor \in [1..n -> BOOLEAN]
         /\ relevanceThrows = [s \in 1..n |-> FALSE]
    /\ onProgress \in {"undefined", "callback"}
    /\ rankPc = "idle"
    /\ rankArg = <<>>
    /\ rankRet = <<>>
    /\ IdleFormat
    /\ IdleTool
    /\ query = <<>>
    /\ IdleBackend
    /\ sinkThrows = {}
    /\ searchCalls = 0
    /\ IdleStore
    /\ IdleLifecycle

\* ------------------------------------------------------------- actions

\* Variant of search() that keeps its selection as the registered sources
\* (this.dataSources = sourcesToSearch at line 23).
Call_KeepsSelection ==
    /\ pc = "idle"
    /\ IF \E ds \in Range(dataSources) : relevanceThrows[ds]
       THEN /\ pc' = "done"
            /\ outcome' = "rejected"
            /\ UNCHANGED << dataSources, sourcesToSearch, mapIndex >>
       ELSE /\ sourcesToSearch' = SelectSources
            /\ dataSources' = SelectSources
            /\ mapIndex' = 1
            /\ pc' = IF Len(SelectSources) = 0 THEN "await" ELSE "map"
            /\ UNCHANGED outcome
    /\ UNCHANGED << isRelevantFor, onProgress, unitPc, unitValue,
                    searchPromise, jobs, invoked, events, returned,
                    rankPc, rankArg, rankRet >>
    /\ UNCHANGED frameVars

\* search() is called: lines 19-25, up to the start of the map.
\* A throw of the filter callback of line 20 leaves the async function, and
\* the promise of search() is rejected.
Call ==
    /\ pc = "idle"
    /\ IF \E ds \in Range(dataSources) : relevanceThrows[ds]
       THEN /\ pc' = "done"
            /\ outcome' = "rejected"
            /\ UNCHANGED << sourcesToSearch, mapIndex >>
       ELSE /\ sourcesToSearch' = SelectSources
            /\ mapIndex' = 1
            /\ pc' = IF Len(SelectSources) = 0 THEN "await" ELSE "map"
            /\ UNCHANGED outcome
    /\ UNCHANGED << dataSources, isRelevantFor, onProgress, unitPc, unitValue,
                    searchPromise, jobs, invoked, events, returned,
                    rankPc, rankArg, rankRet >>
    /\ UNCHANGED frameVars

\* The map calls the async callback on the next source: lines 29-31.  A
\* throw of the sink here is outside the try block: the callback's promise is
\* rejected before source.search is called, and the map goes on.
UnitEnter ==
    /\ pc = "map"
    /\ LET source == sourcesToSearch[mapIndex] IN
         /\ unitPc[source] = "none"
         /\ events' = events \o Deliver(SearchingEvent(source))
         /\ IF SinkThrowsOn("searching")
            THEN /\ unitPc' = [unitPc EXCEPT ![source] = "rejected"]
                 /\ mapIndex' = mapIndex + 1
                 /\ pc' = IF mapIndex = Len(sourcesToSearch) THEN "await" ELSE "map"
            ELSE /\ unitPc' = [unitPc EXCEPT ![source] = "try"]
                 /\ UNCHANGED << pc, mapIndex >>
    /\ UNCHANGED << dataSources, isRelevantFor, onProgress, sourcesToSearch,
                    unitValue, searchPromise, jobs, invoked, outcome,
                    returned, rankPc, rankArg, rankRet >>
    /\ UNCHANGED frameVars

\* Variant of line 34 in a loop that awaits each search before the next
\* source is taken: the call waits right after the first search is started.
UnitInvokeSearch_AwaitsEach ==
    /\ pc = "map"
    /\ LET source == sourcesToSearch[mapIndex] IN
         /\ unitPc[source] = "try"
         /\ invoked' = Append(invoked, source)
         /\ searchPromise' = [searchPromise EXCEPT ![source] =
                                 [state |-> "pending", value |-> <<>>]]
         /\ unitPc' = [unitPc EXCEPT ![source] = "awaiting"]
    /\ mapIndex' = mapIndex + 1
    /\ pc' = "await"
    /\ UNCHANGED << dataSources, isRelevantFor, onProgress, sourcesToSearch,
                    unitValue, jobs, events, outcome, returned,
                    rankPc, rankArg, rankRet >>
    /\ UNCHANGED frameVars

\* line 34: source.search(query) is called and the callback suspends at its
\* await; the map goes on to the next source, or ends and line 57 awaits.
UnitInvokeSearch ==
    /\ pc = "map"
    /\ LET source == sourcesToSearch[mapIndex] IN
         /\ unitPc[source] = "try"
         /\ invoked' = Append(invoked, source)
         /\ searchPromise' = [searchPromise EXCEPT ![source] =
                                 [state |-> "pending", value |-> <<>>]]
         /\ unitPc' = [unitPc EXCEPT ![source] = "awaiting"]
    /\ mapIndex' = mapIndex + 1
    /\ pc' = IF mapIndex = Len(sourcesToSearch) THEN "await" ELSE "map"
    /\ UNCHANGED << dataSources, isRelevantFor, onProgress, sourcesToSearch,
                    unitValue, jobs, events, outcome, returned,
                    rankPc, rankArg, rankRet >>
    /\ UNCHANGED frameVars

\* A data source's search settles (the vendor call came back or failed); the
\* callback's continuation is queued.  This cannot run before the synchronous
\* part of search() has ended.
SettleWith(source, outcomes) ==
    /\ pc \in {"await", "done"}
    /\ searchPromise[source].state = "pending"
    /\ \E o \in outcomes :
         searchPromise' = [searchPromise EXCEPT ![source] = o]
    /\ jobs' = Append(jobs, source)
    /\ UNCHANGED << dataSources, isRelevantFor, onProgress, pc, sourcesToSearch,
                    mapIndex, unitPc, unitValue, invoked, events, outcome,
                    returned, rankPc, rankArg, rankRet >>
    /\ UNCHANGED frameVars

Settle(source) == SettleWith(source, SearchOutcomes)

\* The oldest queued continuation runs: lines 36-44 or lines 45-53.
Resume ==
    /\ jobs # <<>>
    /\ LET source == Head(jobs)
           r == Continuation(source)
       IN  /\ events' = events \o r.emit
           /\ unitPc' = [unitPc EXCEPT ![source] = r.state]
           /\ unitValue' = [unitValue EXCEPT ![source] = r.value]
    /\ jobs' = Tail(jobs)
    /\ UNCHANGED << dataSources, isRelevantFor, onProgress, pc, sourcesToSearch,
                    mapIndex, searchPromise, invoked, outcome, returned,
                    rankPc, rankArg, rankRet >>
    /\ UNCHANGED frameVars

\* lines 57-63: Promise.all settles and search() finishes.
Join ==
    /\ pc = "await"
    /\ PromiseAll(sourcesToSearch) # "pending"
    /\ pc' = "done"
    /\ IF PromiseAll(sourcesToSearch) = "fulfilled"
       THEN LET allResults == [k \in 1..Len(sourcesToSearch) |->
                                  unitValue[sourcesToSearch[k]]]
                flatResults == Flat(allResults)
            IN  /\ rankPc' = "returned"
                /\ rankArg' = flatResults
                /\ rankRet' = rankResults(flatResults)
                /\ returned' = rankResults(flatResults)
                /\ outcome' = "returned"
       ELSE /\ outcome' = "rejected"
            /\ UNCHANGED << returned, rankPc, rankArg, rankRet >>
    /\ UNCHANGED << dataSources, isRelevantFor, onProgress, sourcesToSearch,
                    mapIndex, unitPc, unitValue, searchPromise, jobs, invoked,
                    events >>
    /\ UNCHANGED frameVars

Next ==
    \/ Call
    \/ UnitEnter
    \/ UnitInvokeSearch
    \/ \E source \in Range(dataSources) : Settle(source)
    \/ Resume
    \/ Join

Spec == Init /\ [][Next]_vars

\* --------------------------------------------- search() under fairness

\* The ways a search settles that matter to whether search() returns: it
\* fails, or it resolves with no result or with one.
BriefOutcomes ==
    { o \in SearchOutcomes : Len(o.value) = 0 }
      \cup { [state |-> "fulfilled", value |-> <<r>>] :
               r \in { u \in SearchUniverse : u.relevanceScore = 5 } }

NextLive ==
    \/ Call
    \/ UnitEnter
    \/ UnitInvokeSearch
    \/ \E source \in Range(dataSources) : SettleWith(source, BriefOutcomes)
    \/ Resume
    \/ Join

\* The JavaScript runtime runs synchronous code and queued continuations to
\* their end; nothing makes a data source's search settle.
Fairness ==
    /\ WF_vars(Call)
    /\ WF_vars(UnitEnter)
    /\ WF_vars(UnitInvokeSearch)
    /\ WF_vars(Resume)
    /\ WF_vars(Join)

SpecLive == Init /\ [][NextLive]_vars /\ Fairness

\* ---------------------------------- search() with throwing predicates

\* As Init, but a data source's isRelevantFor may throw for the query.
InitThrow ==
    /\ \E n \in 0..MaxBackends :
         /\ InitOrchestrator(n)
         /\ isRelevantFor \in [1..n -> BOOLEAN]
         /\ relevanceThrows \in [1..n -> BOOLEAN]
    /\ onProgress \in {"undefined", "callback"}
    /\ rankPc = "idle"
    /\ rankArg = <<>>
    /\ rankRet = <<>>
    /\ IdleFormat
    /\ IdleTool
    /\ query = <<>>
    /\ IdleBackend
    /\ sinkThrows = {}
    /\ searchCalls = 0
    /\ IdleStore
    /\ IdleLifecycle

SpecThrow == InitThrow /\ [][Next]_vars

\* --------------------------------------- search() with a throwing sink

ProgressStatuses == {"searching", "completed", "error"}

\* As Init, but the caller's onProgress throws for some of the statuses.
InitSink ==
    /\ \E n \in 0..MaxBackends :
         /\ InitOrchestrator(n)
         /\ isRelevantFor \in [1..n -> BOOLEAN]
         /\ relevanceThrows = [s \in 1..n |-> FALSE]
    /\ onProgress = "callback"
    /\ rankPc = "idle"
    /\ rankArg = <<>>
    /\ rankRet = <<>>
    /\ IdleFormat
    /\ IdleTool
    /\ query = <<>>
    /\ IdleBackend
    /\ sinkThrows \in SUBSET ProgressStatuses \ {{}}
    /\ searchCalls = 0
    /\ IdleStore
    /\ IdleLifecycle

SpecSink == InitSink /\ [][Next]_vars

\* ------------------------------------------- rankResults on its own

InitRank ==
    /\ InitOrchestrator(0)
    /\ isRelevantFor = << >>
    /\ relevanceThrows = << >>
    /\ onProgress = "undefined"
    /\ rankPc = "call"
    /\ rankArg \in BoundedSeq(SearchResult, MaxPool)
    /\ rankRet = <<>>
    /\ IdleFormat
    /\ IdleTool
    /\ query = <<>>
    /\ IdleBackend
    /\ sinkThrows = {}
    /\ searchCalls = 0
    /\ IdleStore
    /\ IdleLifecycle

RankCall ==
    /\ rankPc = "call"
    /\ rankRet' = rankResults(rankArg)
    /\ rankPc' = "returned"
    /\ UNCHANGED << orchVars, rankArg >>
    /\ UNCHANGED frameVars

NextRank == RankCall

SpecRank == InitRank /\ [][NextRank]_vars

\* --------------------------------------------------------- formatResults

\* Source names are sequences of characters; a name without digits is written
\* as a single token.
FormatSources == { <<"Web">>, <<"1">>, <<"1", "0">>, <<"constructor">> }

FormatTitles == { "t1", "t2" }

\* The results handed to formatResults: what it groups by and what tells two
\* results of one source apart.
FormatResult == [title : FormatTitles, source : FormatSources]

\* The second argument: left out, or an integer.
MaxResultsArgs ==
    { [given |-> FALSE] } \cup { [given |-> TRUE, value |-> v] : v \in (0 - MaxLimit)..MaxLimit }

\* the default value of the parameter maxResults
DefaultMaxResults == 10

NoResultsMessage == "No results found across any data sources."

Min(a, b) == IF a < b THEN a ELSE b

Max(a, b) == IF a > b THEN a ELSE b

\* Array.prototype.slice(0, end): a negative end counts from the end of the array.
ArraySlice(array, end) ==
    LET final == IF end < 0 THEN Max(Len(array) + end, 0) ELSE Min(end, Len(array))
    IN  SubSeq(array, 1, final)

DigitChars == << "0", "1", "2", "3", "4", "5", "6", "7", "8", "9" >>

\* A property key that is an array index (a canonical numeric string): such
\* keys are enumerated first, in ascending numeric order.
IsArrayIndex(key) ==
    /\ key # <<>>
    /\ \A i \in 1..Len(key) : key[i] \in Range(DigitChars)
    /\ Len(key) = 1 \/ key[1] # "0"

RECURSIVE IndexValue(_)
IndexValue(key) ==
    IF key = <<>> THEN 0
    ELSE 10 * IndexValue(SubSeq(key, 1, Len(key) - 1))
           + (CHOOSE d \in 1..10 : DigitChars[d] = key[Len(key)]) - 1

\* Names every object inherits from Object.prototype: acc[name] is there (and
\* is no array) although acc has no such property of its own.
ObjectPrototypeKeys ==
    { <<"constructor">>, <<"__proto__">>, <<"toString">>, <<"valueOf">>, <<"hasOwnProperty">> }

HasOwn(props, key) == \E i \in 1..Len(props) : props[i].key = key

\* lines 117-122: one step of the reduce.  acc.props are the object's own
\* properties in creation order; push on an inherited member throws.
GroupStep(acc, result) ==
    IF acc.thrown THEN acc
    ELSE IF HasOwn(acc.props, result.source)
    THEN [acc EXCEPT !.props =
            [i \in 1..Len(acc.props) |->
               IF acc.props[i].key = result.source
               THEN [key |-> result.source, value |-> Append(acc.props[i].value, result)]
               ELSE acc.props[i]]]
    ELSE IF result.source \in ObjectPrototypeKeys
    THEN [acc EXCEPT !.thrown = TRUE]
    ELSE [acc EXCEPT !.props = Append(acc.props, [key |-> result.source, value |-> <<result>>])]

RECURSIVE Reduce(_, _)
Reduce(results, acc) ==
    IF results = <<>> THEN acc ELSE Reduce(Tail(results), GroupStep(acc, Head(results)))

\* lines 116-124
groupBySource(results) == Reduce(results, [thrown |-> FALSE, props |-> <<>>])

RECURSIVE InsertByIndex(_, _)
InsertByIndex(p, s) ==
    IF s = <<>> THEN <<p>>
    ELSE IF IndexValue(Head(s).key) < IndexValue(p.key)
         THEN <<Head(s)>> \o InsertByIndex(p, Tail(s))
         ELSE <<p>> \o s

RECURSIVE SortByIndex(_, _)
SortByIndex(s, acc) ==
    IF s = <<>> THEN acc ELSE SortByIndex(Tail(s), InsertByIndex(Head(s), acc))

\* Object.keys / Object.entries: array-index keys in ascending numeric order,
\* then the other keys in creation order.
ObjectEntries(props) ==
    SortByIndex(SelectSeq(props, LAMBDA p : IsArrayIndex(p.key)), <<>>)
      \o SelectSeq(props, LAMBDA p : ~IsArrayIndex(p.key))

\* lines 96-113: the summary, as the header's two numbers and the blocks
Summary(results, limit) ==
    LET topResults == ArraySlice(results, limit)
        sourceGroups == groupBySource(topResults)
        entries == ObjectEntries(sourceGroups.props)
    IN  IF sourceGroups.thrown THEN [kind |-> "thrown"]
        ELSE [ kind    |-> "summary",
               total   |-> Len(results),
               sources |-> Len(entries),
               blocks  |-> [k \in 1..Len(entries) |->
                              [ source |-> entries[k].key,
                                count  |-> Len(entries[k].value),
                                items  |-> entries[k].value ]] ]

\* Variant of formatResults without the early return of lines 92-94.
formatResults_NoEarlyReturn(results, maxResults) ==
    Summary(results, IF maxResults.given THEN maxResults.value ELSE DefaultMaxResults)

\* lines 91-114
formatResults(results, maxResults) ==
    IF Len(results) = 0
    THEN [kind |-> "message", text |-> NoResultsMessage]
    ELSE Summary(results, IF maxResults.given THEN maxResults.value ELSE DefaultMaxResults)

InitFormat ==
    /\ InitOrchestrator(0)
    /\ isRelevantFor = << >>
    /\ relevanceThrows = << >>
    /\ onProgress = "undefined"
    /\ rankPc = "idle"
    /\ rankArg = <<>>
    /\ rankRet = <<>>
    /\ fmtPc = "call"
    /\ fmtResults \in BoundedSeq(FormatResult, MaxFmtLen)
    /\ fmtMaxResults \in MaxResultsArgs
    /\ fmtRet = [kind |-> "none"]
    /\ IdleTool
    /\ query = <<>>
    /\ IdleBackend
    /\ sinkThrows = {}
    /\ searchCalls = 0
    /\ IdleStore
    /\ IdleLifecycle

FormatCall ==
    /\ fmtPc = "call"
    /\ fmtRet' = formatResults(fmtResults, fmtMaxResults)
    /\ fmtPc' = "done"
    /\ UNCHANGED << orchVars, rankVars, relevanceThrows, sinkThrows, searchCalls, storeVars, vendorCall, toolVars,
                    query, backendVars, lifecycleVars, mainVars, fmtResults,
                    fmtMaxResults >>

NextFormat == FormatCall

SpecFormat == InitFormat /\ [][NextFormat]_vars

\* --------------------------- searches and formatResults calls in sequence

\* The caller passes what search() returned to formatResults, as the handler
\* of search-all-sources does.
FormatReturned ==
    /\ pc = "done"
    /\ outcome = "returned"
    /\ fmtPc = "idle"
    /\ \E maxResults \in MaxResultsArgs :
         /\ fmtPc' = "done"
         /\ fmtResults' = returned
         /\ fmtMaxResults' = maxResults
         /\ fmtRet' = formatResults(returned, maxResults)
    /\ UNCHANGED << orchVars, rankVars, relevanceThrows, sinkThrows, searchCalls,
                    storeVars, vendorCall, toolVars, query, backendVars,
                    lifecycleVars, mainVars >>

\* The caller is done with a search and calls search() on the same
\* orchestrator again, with another query and with or without a sink.
SearchAgain ==
    /\ pc = "done"
    /\ searchCalls + 1 < MaxSearches
    /\ \A s \in Range(dataSources) : searchPromise[s].state # "pending"
    /\ jobs = <<>>
    /\ searchCalls' = searchCalls + 1
    /\ isRelevantFor' \in [DOMAIN isRelevantFor -> BOOLEAN]
    /\ onProgress' \in {"undefined", "callback"}
    /\ pc' = "idle"
    /\ sourcesToSearch' = <<>>
    /\ mapIndex' = 0
    /\ unitPc' = [s \in DOMAIN unitPc |-> "none"]
    /\ unitValue' = [s \in DOMAIN unitValue |-> <<>>]
    /\ searchPromise' = [s \in DOMAIN searchPromise |-> [state |-> "none", value |-> <<>>]]
    /\ invoked' = <<>>
    /\ events' = <<>>
    /\ outcome' = "pending"
    /\ returned' = <<>>
    /\ rankPc' = "idle"
    /\ rankArg' = <<>>
    /\ rankRet' = <<>>
    /\ fmtPc' = "idle"
    /\ fmtResults' = <<>>
    /\ fmtMaxResults' = [given |-> FALSE]
    /\ fmtRet' = [kind |-> "none"]
    /\ UNCHANGED << dataSources, jobs, relevanceThrows, sinkThrows, storeVars,
                    vendorCall, toolVars, query, backendVars, lifecycleVars, mainVars >>

NextCalls ==
    \/ Call
    \/ UnitEnter
    \/ UnitInvokeSearch
    \/ \E source \in Range(dataSources) : SettleWith(source, BriefOutcomes)
    \/ Resume
    \/ Join
    \/ FormatReturned
    \/ SearchAgain

SpecCalls == Init /\ [][NextCalls]_vars

\* ------------------------- search-all-sources over the shipped data sources

\* The data sources of server-two.ts in registration order; a shipped data
\* source is identified by its position here.
ShippedNames == << <<"Slack">>, <<"Google Docs">>, <<"Database">>, <<"Web">> >>

Slack == 1
GoogleDocs == 2
Database == 3
Web == 4

\* Each is registered when its environment variable is set.
Registrations ==
    { reg \in BoundedSeq(1..Len(ShippedNames), MaxBackends) :
        \A i, j \in 1..Len(reg) : i < j => reg[i] < reg[j] }

\* isRelevantFor of the shipped data sources
ShippedIsRelevantFor(source, q) ==
    IF source = Slack THEN SomeKeyword(SlackKeywords, q)
    ELSE IF source = GoogleDocs THEN SomeKeyword(GoogleDocsKeywords, q)
    ELSE IF source = Database THEN SomeKeyword(DatabaseKeywords, q)
    ELSE TRUE

\* The messages client.search.messages answers with: channel name and text.
SlackMessages == [channel : { <<"g">> }, text : Contents]

\* The files drive.files.list answers with, each with the way
\* docs.documents.get ends for it.
DriveFiles == [name : { <<"a">> }, get : {"failed", "answered"}]

\* The pool.query calls DatabaseDataSource.search makes for a query, in order.
DatabaseCalls(q) ==
    (IF Includes(ToLowerCase(q), <<"u", "s", "e", "r", "s">>) THEN <<"users">> ELSE <<>>)
      \o (IF Includes(ToLowerCase(q), <<"d", "a", "t", "a", "d", "o", "g">>)
          THEN <<"datadog">> ELSE <<>>)
      \o <<"text">>

\* How the vendor calls of a search end.  state is "failed" when the call
\* that asks the vendor for the items fails (for Database: call number
\* failsAt of the calls made), "answered" when it answers with items.
VendorOutcomes(source, q) ==
    IF source = Slack
    THEN { [state |-> "failed"] }
           \cup { [state |-> "answered", items |-> m] : m \in BoundedSeq(SlackMessages, MaxLen) }
    ELSE IF source = GoogleDocs
    THEN { [state |-> "failed"] }
           \cup { [state |-> "answered", items |-> f] : f \in BoundedSeq(DriveFiles, MaxLen) }
    ELSE IF source = Database
    THEN { [state |-> "failed", failsAt |-> k] : k \in 1..Len(DatabaseCalls(q)) }
           \cup { [state |-> "answered", items |-> r] : r \in BoundedSeq({ <<"a">> }, MaxLen) }
    ELSE { [state |-> "failed"] }
           \cup { [state |-> "answered", items |-> i] : i \in BoundedSeq(Titles, MaxLen) }

\* relevanceScore of the item at the given index (from 0), in hundredths
ShippedScore(source, index) ==
    IF source = Web THEN 100 - 15 * index
    ELSE IF source = Database THEN 70 - 10 * index
    ELSE 100 - 10 * index

\* SlackDataSource.search, lines 40-53: the try block after the vendor call
SlackResults(messages) ==
    [k \in 1..Len(messages) |->
       [ title          |-> <<"Message in #">> \o messages[k].channel,
         source         |-> ShippedNames[Slack],
         relevanceScore |-> ShippedScore(Slack, k - 1),
         content        |-> messages[k].text ]]

\* GoogleDocsDataSource.search, lines 41-66: a file whose document cannot be
\* fetched keeps its result, with the fallback snippet.
GoogleDocsResults(files) ==
    [k \in 1..Len(files) |->
       [ title          |-> files[k].name,
         source         |-> ShippedNames[GoogleDocs],
         relevanceScore |-> ShippedScore(GoogleDocs, k - 1),
         content        |-> IF files[k].get = "failed"
                            THEN "Unable to fetch content" ELSE "x" ]]

\* DatabaseDataSource.search, lines 31-77: what the calls made have pushed
\* onto results when the search returns it.
DatabaseResults(q, rows) ==
    (IF "users" \in Range(DatabaseCalls(q))
     THEN << [ title |-> <<"User Statistics">>, source |-> ShippedNames[Database],
               relevanceScore |-> 90, content |-> "Total users" ] >>
     ELSE <<>>)
      \o (IF "datadog" \in Range(DatabaseCalls(q))
          THEN << [ title |-> <<"Datadog Users">>, source |-> ShippedNames[Database],
                    relevanceScore |-> 95, content |-> "Users using Datadog" ] >>
          ELSE <<>>)
      \o [k \in 1..Len(rows) |->
            [ title          |-> <<"User: ">> \o rows[k],
              source         |-> ShippedNames[Database],
              relevanceScore |-> ShippedScore(Database, k - 1),
              content        |-> "Email" ]]

\* WebSearchDataSource.search, lines 39-50
WebResults(items) ==
    [k \in 1..Len(items) |->
       [ title          |-> items[k],
         source         |-> ShippedNames[Web],
         relevanceScore |-> ShippedScore(Web, k - 1),
         content        |-> "x" ]]

\* Variant of the searches whose catch block throws the error again.
ShippedSearch_Rethrows(source, q, vendor) ==
    IF vendor.state = "failed"
    THEN [state |-> "rejected", value |-> <<>>]
    ELSE [ state |-> "fulfilled",
           value |-> IF source = Slack THEN SlackResults(vendor.items)
                     ELSE IF source = GoogleDocs THEN GoogleDocsResults(vendor.items)
                     ELSE IF source = Database THEN DatabaseResults(q, vendor.items)
                     ELSE WebResults(vendor.items) ]

\* search of a shipped data source: the try block maps the items to results,
\* the catch block returns [] when a vendor call of the try block failed.
ShippedSearch(source, q, vendor) ==
    IF vendor.state = "failed"
    THEN [state |-> "fulfilled", value |-> <<>>]
    ELSE [ state |-> "fulfilled",
           value |-> IF source = Slack THEN SlackResults(vendor.items)
                     ELSE IF source = GoogleDocs THEN GoogleDocsResults(vendor.items)
                     ELSE IF source = Database THEN DatabaseResults(q, vendor.items)
                     ELSE WebResults(vendor.items) ]

\* the default value of the handler's parameter maxResults
ToolDefaultMaxResults == 10

\* The callback the handler passes to search: the line pushed for an event.
ProgressLine(progress) ==
    [ emoji  |-> IF progress.status = "completed" THEN "check"
                 ELSE IF progress.status = "error" THEN "cross" ELSE "hourglass",
      source |-> ShippedNames[progress.source],
      status |-> progress.status,
      count  |-> IF "resultCount" \in DOMAIN progress
                 THEN [shown |-> TRUE, value |-> progress.resultCount]
                 ELSE [shown |-> FALSE] ]

progressUpdates == [k \in 1..Len(events) |-> ProgressLine(events[k])]

\* A search-all-sources request has come in; its handler is about to call
\* orchestrator.search with its callback.
InitShipped ==
    /\ dataSources \in Registrations
    /\ query \in Queries
    /\ isRelevantFor = [s \in Range(dataSources) |-> ShippedIsRelevantFor(s, query)]
    /\ relevanceThrows = [s \in Range(dataSources) |-> FALSE]
    /\ onProgress = "callback"
    /\ pc = "idle"
    /\ sourcesToSearch = <<>>
    /\ mapIndex = 0
    /\ unitPc = [s \in Range(dataSources) |-> "none"]
    /\ unitValue = [s \in Range(dataSources) |-> <<>>]
    /\ searchPromise = [s \in Range(dataSources) |-> [state |-> "none", value |-> <<>>]]
    /\ jobs = <<>>
    /\ invoked = <<>>
    /\ events = <<>>
    /\ outcome = "pending"
    /\ returned = <<>>
    /\ rankPc = "idle"
    /\ rankArg = <<>>
    /\ rankRet = <<>>
    /\ IdleFormat
    /\ vendorCall = [s \in Range(dataSources) |-> [state |-> "none"]]
    /\ toolArgs \in { [called |-> TRUE, maxResults |-> m] : m \in MaxResultsArgs }
    /\ toolResponse = [kind |-> "none"]
    /\ IdleBackend
    /\ sinkThrows = {}
    /\ searchCalls = 0
    /\ IdleStore
    /\ IdleLifecycle

\* The vendor call of a shipped data source ends, and with it its search.
ShippedSettle(source) ==
    /\ pc \in {"await", "done"}
    /\ searchPromise[source].state = "pending"
    /\ \E vendor \in VendorOutcomes(source, query) :
         /\ vendorCall' = [vendorCall EXCEPT ![source] = vendor]
         /\ searchPromise' = [searchPromise EXCEPT ![source] =
                                 ShippedSearch(source, query, vendor)]
    /\ jobs' = Append(jobs, source)
    /\ UNCHANGED << dataSources, isRelevantFor, onProgress, pc, sourcesToSearch,
                    mapIndex, unitPc, unitValue, invoked, events, outcome,
                    returned, rankVars, fmtVars, relevanceThrows, sinkThrows, searchCalls, storeVars, toolVars,
                    query, backendVars, lifecycleVars, mainVars >>

\* The handler goes on after its await: it formats the results and returns
\* the text, or returns the "Search failed" text from its catch block.
ToolRespond ==
    /\ toolArgs.called
    /\ toolResponse.kind = "none"
    /\ pc = "done"
    /\ IF outcome = "returned"
       THEN LET maxResults == [ given |-> TRUE,
                                value |-> IF toolArgs.maxResults.given
                                          THEN toolArgs.maxResults.value
                                          ELSE ToolDefaultMaxResults ]
                formattedResults == formatResults(returned, maxResults)
            IN  /\ fmtPc' = "done"
                /\ fmtResults' = returned
                /\ fmtMaxResults' = maxResults
                /\ fmtRet' = formattedResults
                /\ toolResponse' =
                     IF formattedResults.kind = "thrown"
                     THEN [kind |-> "failed"]
                     ELSE [ kind             |-> "results",
                            progressUpdates  |-> progressUpdates,
                            formattedResults |-> formattedResults ]
       ELSE /\ toolResponse' = [kind |-> "failed"]
            /\ UNCHANGED fmtVars
    /\ UNCHANGED << orchVars, rankVars, relevanceThrows, sinkThrows, searchCalls, storeVars, vendorCall, toolArgs,
                    query, backendVars, lifecycleVars, mainVars >>

NextShipped ==
    \/ Call
    \/ UnitEnter
    \/ UnitInvokeSearch
    \/ \E source \in Range(dataSources) : ShippedSettle(source)
    \/ Resume
    \/ Join
    \/ ToolRespond

SpecShipped == InitShipped /\ [][NextShipped]_vars

\* --------------------------------- the documented multi-source search

\* As InitShipped, with all four environment variables set, so that all four
\* data sources are registered, and with the query of the documentation.
InitDocumented ==
    /\ dataSources = << Slack, GoogleDocs, Database, Web >>
    /\ query = DocumentedQuery
    /\ isRelevantFor = [s \in Range(dataSources) |-> ShippedIsRelevantFor(s, query)]
    /\ relevanceThrows = [s \in Range(dataSources) |-> FALSE]
    /\ onProgress = "callback"
    /\ pc = "idle"
    /\ sourcesToSearch = <<>>
    /\ mapIndex = 0
    /\ unitPc = [s \in Range(dataSources) |-> "none"]
    /\ unitValue = [s \in Range(dataSources) |-> <<>>]
    /\ searchPromise = [s \in Range(dataSources) |-> [state |-> "none", value |-> <<>>]]
    /\ jobs = <<>>
    /\ invoked = <<>>
    /\ events = <<>>
    /\ outcome = "pending"
    /\ returned = <<>>
    /\ rankPc = "idle"
    /\ rankArg = <<>>
    /\ rankRet = <<>>
    /\ IdleFormat
    /\ vendorCall = [s \in Range(dataSources) |-> [state |-> "none"]]
    /\ toolArgs \in { [called |-> TRUE, maxResults |-> m] : m \in MaxResultsArgs }
    /\ toolResponse = [kind |-> "none"]
    /\ IdleBackend
    /\ sinkThrows = {}
    /\ searchCalls = 0
    /\ IdleStore
    /\ IdleLifecycle

SpecDocumented == InitDocumented /\ [][NextShipped]_vars

\* ------------------------------- search of a shipped data source on its own

InitSearch ==
    /\ InitOrchestrator(0)
    /\ isRelevantFor = << >>
    /\ relevanceThrows = << >>
    /\ onProgress = "undefined"
    /\ rankPc = "idle"
    /\ rankArg = <<>>
    /\ rankRet = <<>>
    /\ IdleFormat
    /\ IdleTool
    /\ query \in Queries
    /\ backendPc = "call"
    /\ backendSource \in 1..Len(ShippedNames)
    /\ backendVendor \in VendorOutcomes(backendSource, query)
    /\ backendRet = [state |-> "none", value |-> <<>>]
    /\ sinkThrows = {}
    /\ searchCalls = 0
    /\ IdleStore
    /\ IdleLifecycle

SearchCall ==
    /\ backendPc = "call"
    /\ backendRet' = ShippedSearch(backendSource, query, backendVendor)
    /\ backendPc' = "done"
    /\ UNCHANGED << orchVars, rankVars, fmtVars, relevanceThrows, sinkThrows, searchCalls, storeVars, vendorCall, toolVars,
                    query, backendSource, backendVendor, lifecycleVars, mainVars >>

NextSearch == SearchCall

SpecSearch == InitSearch /\ [][NextSearch]_vars

\* ----------------------------------------- connect and disconnect

DataSourceClasses ==
    { "SlackDataSource", "GoogleDocsDataSource", "DatabaseDataSource",
      "WebSearchDataSource", "JSONDataSource", "PostgreSQLDataSource",
      "MongoDBDataSource" }

\* A data source after its constructor: not connected; of its pool (or
\* client) no client is checked out and end (close) has not been called.
NewDataSource(class) ==
    [ class |-> class, isConnected |-> FALSE, poolClients |-> 0, poolEnded |-> FALSE ]

\* How the vendor calls of a connect or disconnect end: all succeed, the first
\* fails, or the first succeeds and the next fails.
VendorRuns == { "ok", "fails", "failsLater" }

\* connect() of each class.  ok is FALSE when the returned promise rejects.
connect(ds, vendor) ==
    IF ds.class \in {"GoogleDocsDataSource", "WebSearchDataSource"}
    THEN \* no vendor call is awaited
         [ok |-> TRUE, ds |-> [ds EXCEPT !.isConnected = TRUE]]
    ELSE IF ds.class = "JSONDataSource"
    THEN \* fs.access, and fs.writeFile when it fails
         [ok |-> vendor # "failsLater", ds |-> ds]
    ELSE IF ds.class = "SlackDataSource"
    THEN IF vendor = "ok"
         THEN [ok |-> TRUE, ds |-> [ds EXCEPT !.isConnected = TRUE]]
         ELSE [ok |-> FALSE, ds |-> ds]
    ELSE IF ds.class = "DatabaseDataSource"
    THEN \* pool.connect() checks a client out; it is never released
         IF vendor = "ok"
         THEN [ok |-> TRUE, ds |-> [ds EXCEPT !.isConnected = TRUE,
                                              !.poolClients = ds.poolClients + 1]]
         ELSE [ok |-> FALSE, ds |-> ds]
    ELSE \* PostgreSQLDataSource, MongoDBDataSource
         IF ds.isConnected THEN [ok |-> TRUE, ds |-> ds]
         ELSE IF vendor = "ok"
         THEN \* the client is released (the connection is the client's own)
              [ok |-> TRUE, ds |-> [ds EXCEPT !.isConnected = TRUE]]
         ELSE IF vendor = "failsLater"
         THEN \* the query (createIndex) fails after the connection was made
              [ok |-> FALSE, ds |-> [ds EXCEPT !.poolClients = ds.poolClients + 1]]
         ELSE [ok |-> FALSE, ds |-> ds]

\* disconnect() of each class
disconnect(ds, vendor) ==
    IF ds.class \in {"SlackDataSource", "GoogleDocsDataSource", "WebSearchDataSource"}
    THEN [ok |-> TRUE, ds |-> [ds EXCEPT !.isConnected = FALSE]]
    ELSE IF ds.class = "JSONDataSource"
    THEN [ok |-> TRUE, ds |-> ds]
    ELSE IF ds.class = "DatabaseDataSource" \/ ds.isConnected
    THEN \* pool.end() or client.close()
         IF vendor = "ok"
         THEN [ok |-> TRUE, ds |-> [ds EXCEPT !.isConnected = FALSE,
                                              !.poolClients = 0,
                                              !.poolEnded = TRUE]]
         ELSE [ok |-> FALSE, ds |-> ds]
    ELSE [ok |-> TRUE, ds |-> ds]

InitLifecycle ==
    /\ InitOrchestrator(0)
    /\ isRelevantFor = << >>
    /\ relevanceThrows = << >>
    /\ onProgress = "undefined"
    /\ rankPc = "idle"
    /\ rankArg = <<>>
    /\ rankRet = <<>>
    /\ IdleFormat
    /\ IdleTool
    /\ query = <<>>
    /\ IdleBackend
    /\ sinkThrows = {}
    /\ searchCalls = 0
    /\ IdleStore
    /\ dataSource \in { NewDataSource(class) : class \in DataSourceClasses }
    /\ lifecycleCalls = <<>>
    /\ mainPc = "idle"
    /\ sigint = FALSE
    /\ exitCode = "none"

Connect ==
    /\ dataSource.class # "none"
    /\ Len(lifecycleCalls) < MaxCalls
    /\ \E vendor \in VendorRuns :
         LET r == connect(dataSource, vendor)
         IN  /\ dataSource' = r.ds
             /\ lifecycleCalls' =
                  Append(lifecycleCalls,
                         [op |-> "connect", vendor |-> vendor, ok |-> r.ok, after |-> r.ds])
    /\ UNCHANGED << orchVars, rankVars, fmtVars, relevanceThrows, sinkThrows, searchCalls, storeVars, vendorCall, toolVars,
                    query, backendVars, mainVars >>

Disconnect ==
    /\ dataSource.class # "none"
    /\ Len(lifecycleCalls) < MaxCalls
    /\ \E vendor \in VendorRuns :
         LET r == disconnect(dataSource, vendor)
         IN  /\ dataSource' = r.ds
             /\ lifecycleCalls' =
                  Append(lifecycleCalls,
                         [op |-> "disconnect", vendor |-> vendor, ok |-> r.ok, after |-> r.ds])
    /\ UNCHANGED << orchVars, rankVars, fmtVars, relevanceThrows, sinkThrows, searchCalls, storeVars, vendorCall, toolVars,
                    query, backendVars, mainVars >>

NextLifecycle == Connect \/ Disconnect

SpecLifecycle == InitLifecycle /\ [][NextLifecycle]_vars

\* ------------------------------------------------- main() and SIGINT

\* The process has been started: the module body has built searchDataSources
\* and the orchestrator, and main() is about to connect the user data source.
InitMain ==
    /\ dataSources \in Registrations
    /\ isRelevantFor = [s \in Range(dataSources) |-> TRUE]
    /\ relevanceThrows = [s \in Range(dataSources) |-> FALSE]
    /\ onProgress = "undefined"
    /\ pc = "idle"
    /\ sourcesToSearch = <<>>
    /\ mapIndex = 0
    /\ unitPc = [s \in Range(dataSources) |-> "none"]
    /\ unitValue = [s \in Range(dataSources) |-> <<>>]
    /\ searchPromise = [s \in Range(dataSources) |-> [state |-> "none", value |-> <<>>]]
    /\ jobs = <<>>
    /\ invoked = <<>>
    /\ events = <<>>
    /\ outcome = "pending"
    /\ returned = <<>>
    /\ rankPc = "idle"
    /\ rankArg = <<>>
    /\ rankRet = <<>>
    /\ IdleFormat
    /\ IdleTool
    /\ query = <<>>
    /\ IdleBackend
    /\ sinkThrows = {}
    /\ searchCalls = 0
    /\ IdleStore
    /\ dataSource = [class |-> "none"]
    /\ lifecycleCalls = <<>>
    /\ mainPc = "connectUser"
    /\ sigint = FALSE
    /\ exitCode = "none"

\* The calls searchDataSources.map(ds => ds[op]()) makes, in order, with the
\* way each ends.
MappedCalls(op, oks) ==
    [k \in 1..Len(dataSources) |->
       [op |-> op, target |-> ShippedNames[dataSources[k]], ok |-> oks[dataSources[k]]]]

\* What no step of main() or of the SIGINT handler writes.
mainFrame ==
    << orchVars, rankVars, fmtVars, relevanceThrows, sinkThrows, searchCalls, storeVars, vendorCall, toolVars, query,
       backendVars, dataSource >>

\* line 339, and the catch block when the connect fails
MainConnectUser ==
    /\ mainPc = "connectUser"
    /\ \E ok \in BOOLEAN :
         /\ lifecycleCalls' =
              Append(lifecycleCalls, [op |-> "connect", target |-> <<"user">>, ok |-> ok])
         /\ mainPc' = IF ok THEN "connectSearch" ELSE "exited"
         /\ exitCode' = IF ok THEN exitCode ELSE "1"
    /\ UNCHANGED << mainFrame, sigint >>

\* lines 343-351, and the catch block when a connect fails
MainConnectSearch ==
    /\ mainPc = "connectSearch"
    /\ \E oks \in [Range(dataSources) -> BOOLEAN] :
         /\ lifecycleCalls' = lifecycleCalls \o MappedCalls("connect", oks)
         /\ mainPc' = IF \A s \in Range(dataSources) : oks[s]
                      THEN "serverConnect" ELSE "exited"
         /\ exitCode' = IF \A s \in Range(dataSources) : oks[s] THEN exitCode ELSE "1"
    /\ UNCHANGED << mainFrame, sigint >>

\* lines 354-364: the server is connected to its transport and, after that,
\* the SIGINT handler is registered; the catch block when the connect fails
MainServerConnect ==
    /\ mainPc = "serverConnect"
    /\ \E ok \in BOOLEAN :
         /\ mainPc' = IF ok THEN "running" ELSE "exited"
         /\ exitCode' = IF ok THEN exitCode ELSE "1"
    /\ UNCHANGED << mainFrame, lifecycleCalls, sigint >>

\* The process receives SIGINT: the handler of line 359 starts if it has been
\* registered, else the signal ends the process.
Sigint ==
    /\ ~sigint
    /\ mainPc \in {"connectUser", "connectSearch", "serverConnect", "running"}
    /\ sigint' = TRUE
    /\ IF mainPc = "running"
       THEN mainPc' = "disconnectUser" /\ UNCHANGED exitCode
       ELSE mainPc' = "exited" /\ exitCode' = "SIGINT"
    /\ UNCHANGED << mainFrame, lifecycleCalls >>

\* line 361.  When the disconnect fails the handler's promise is rejected with
\* nobody to handle it: the process ends with an error, or (with unhandled
\* rejections set to warn) goes on running.
HandlerDisconnectUser ==
    /\ mainPc = "disconnectUser"
    /\ \E ok \in BOOLEAN :
         /\ lifecycleCalls' =
              Append(lifecycleCalls, [op |-> "disconnect", target |-> <<"user">>, ok |-> ok])
         /\ IF ok
            THEN mainPc' = "disconnectSearch" /\ UNCHANGED exitCode
            ELSE \/ mainPc' = "exited" /\ exitCode' = "1"
                 \/ mainPc' = "running" /\ UNCHANGED exitCode
    /\ UNCHANGED << mainFrame, sigint >>

\* lines 362-363
HandlerDisconnectSearch ==
    /\ mainPc = "disconnectSearch"
    /\ \E oks \in [Range(dataSources) -> BOOLEAN] :
         /\ lifecycleCalls' = lifecycleCalls \o MappedCalls("disconnect", oks)
         /\ IF \A s \in Range(dataSources) : oks[s]
            THEN mainPc' = "exited" /\ exitCode' = "0"
            ELSE \/ mainPc' = "exited" /\ exitCode' = "1"
                 \/ mainPc' = "running" /\ UNCHANGED exitCode
    /\ UNCHANGED << mainFrame, sigint >>

NextMain ==
    \/ MainConnectUser
    \/ MainConnectSearch
    \/ MainServerConnect
    \/ Sigint
    \/ HandlerDisconnectUser
    \/ HandlerDisconnectSearch

SpecMain == InitMain /\ [][NextMain]_vars

\* ------------------------------------------ JSONDataSource.createUser

UserNames == {"a", "b"}

Callers == 1..MaxCallers

\* The files createUser calls made one after the other leave behind, some users
\* deleted since: users in the order of their ids.
StoredFiles ==
    { f \in BoundedSeq([id : 1..MaxStoredId, name : UserNames], MaxStoredId) :
        \A i, j \in 1..Len(f) : i < j => f[i].id < f[j].id }

\* Math.max(...users.map(u => Number(u.id)))
MaxUserId(users) ==
    CHOOSE id \in { users[k].id : k \in 1..Len(users) } :
      \A k \in 1..Len(users) : users[k].id <= id

\* line 42
NewUserId(users) == IF Len(users) > 0 THEN MaxUserId(users) + 1 ELSE 1

InitStore ==
    /\ InitOrchestrator(0)
    /\ isRelevantFor = << >>
    /\ relevanceThrows = << >>
    /\ onProgress = "undefined"
    /\ rankPc = "idle"
    /\ rankArg = <<>>
    /\ rankRet = <<>>
    /\ IdleFormat
    /\ IdleTool
    /\ query = <<>>
    /\ IdleBackend
    /\ sinkThrows = {}
    /\ searchCalls = 0
    /\ IdleLifecycle
    /\ file \in StoredFiles
    /\ createPc = [c \in Callers |-> "idle"]
    /\ createArg = [c \in Callers |-> [name |-> "a"]]
    /\ createUsers = [c \in Callers |-> <<>>]
    /\ createRet = [c \in Callers |-> 0]

\* What no step of createUser writes.
storeFrame ==
    << orchVars, rankVars, fmtVars, relevanceThrows, sinkThrows, searchCalls,
       vendorCall, toolVars, query, backendVars, lifecycleVars, mainVars >>

\* A create-user request comes in: createUser is called and suspends at the
\* await of line 41, the read of the file under way.
CreateUserCall(c) ==
    /\ createPc[c] = "idle"
    /\ \E name \in UserNames :
         createArg' = [createArg EXCEPT ![c] = [name |-> name]]
    /\ createPc' = [createPc EXCEPT ![c] = "reading"]
    /\ UNCHANGED << storeFrame, file, createUsers, createRet >>

\* The read ends: lines 41-45, up to the await of the write.
CreateUserRead(c) ==
    /\ createPc[c] = "reading"
    /\ LET users == file
           id == NewUserId(users)
       IN  createUsers' = [createUsers EXCEPT ![c] =
                             Append(users, [id |-> id, name |-> createArg[c].name])]
    /\ createPc' = [createPc EXCEPT ![c] = "writing"]
    /\ UNCHANGED << storeFrame, file, createArg, createRet >>

\* The write ends and createUser returns the id: lines 45-47.
CreateUserWrite(c) ==
    /\ createPc[c] = "writing"
    /\ file' = createUsers[c]
    /\ createRet' = [createRet EXCEPT ![c] = createUsers[c][Len(createUsers[c])].id]
    /\ createPc' = [createPc EXCEPT ![c] = "done"]
    /\ UNCHANGED << storeFrame, createArg, createUsers >>

NextStore ==
    \E c \in Callers :
      \/ CreateUserCall(c)
      \/ CreateUserRead(c)
      \/ CreateUserWrite(c)

SpecStore == InitStore /\ [][NextStore]_vars

\* ------------------------------------------------------------ properties

\* How many delivered progress events name this source with this status.
EventCount(source, status) ==
    Cardinality({ k \in 1..Len(events) :
                    events[k].source = source /\ events[k].status = status })

StatusCount(status) ==
    Cardinality({ k \in 1..Len(events) : events[k].status = status })

PositionIn(seq, x) == CHOOSE i \in 1..Len(seq) : seq[i] = x

IsPrefix(s, t) == Len(s) <= Len(t) /\ \A i \in 1..Len(s) : s[i] = t[i]

Failed(source) == searchPromise[source].state = "rejected"

Succeeded(source) == searchPromise[source].state = "fulfilled"

\* C1: isolation.  When search() has finished and, among the searched data
\* sources, the search of A was rejected and the search of B was fulfilled, the
\* call returned, the sink got exactly one error and no completed event for A
\* and exactly one completed and no error event for B; when A and B are the
\* whole search set, these are the only terminal events and the returned array
\* holds only results of B, namely B's array ranked and deduplicated.  TLC
\* explores every order in which the two searches settle.
C1_Isolation ==
    pc = "done" =>
      \A A, B \in Range(sourcesToSearch) :
        (Failed(A) /\ Succeeded(B)) =>
          /\ outcome = "returned"
          /\ onProgress = "callback" =>
               /\ EventCount(A, "error") = 1 /\ EventCount(A, "completed") = 0
               /\ EventCount(B, "completed") = 1 /\ EventCount(B, "error") = 0
          /\ Range(sourcesToSearch) = {A, B} =>
               /\ onProgress = "callback" =>
                    StatusCount("error") = 1 /\ StatusCount("completed") = 1
               /\ Range(returned) \subseteq Range(searchPromise[B].value)
               /\ returned = rankResults(searchPromise[B].value)

\* A finished call in which source 1 failed after source 2 had completed with
\* two results.
C1_Witness ==
    /\ pc = "done"
    /\ sourcesToSearch = <<1, 2>>
    /\ Failed(1) /\ Succeeded(2)
    /\ Len(searchPromise[2].value) = 2
    /\ Len(events) = 4
    /\ events[3].status = "completed"
    /\ events[4].status = "error"
    /\ Len(returned) = 2

\* C2: search() never ends rejected: whatever the searches' outcomes, the
\* promise of search() is never rejected and a finished call has returned an
\* array.
C2_NeverRejects ==
    /\ outcome # "rejected"
    /\ pc = "done" => outcome = "returned" /\ returned \in Seq(SearchUniverse)

\* A finished call in which every search failed.
C2_Witness ==
    /\ pc = "done"
    /\ Len(sourcesToSearch) = MaxBackends
    /\ \A s \in Range(sourcesToSearch) : Failed(s)
    /\ outcome = "returned"
    /\ returned = <<>>

NoneRelevant == \A ds \in Range(dataSources) : ~isRelevantFor[ds]

\* C3: routing fallback.  When no registered data source is relevant, search
\* is called on the registered data sources in registration order, once each:
\* the calls made so far are a prefix of the registration and, once the map has
\* ended, all of it.
C3_RoutingFallback ==
    NoneRelevant =>
      /\ IsPrefix(invoked, dataSources)
      /\ pc \in {"await", "done"} => invoked = dataSources

\* A finished call on two registered data sources, neither relevant.
C3_Witness ==
    /\ pc = "done"
    /\ Len(dataSources) = 2
    /\ NoneRelevant
    /\ invoked = <<1, 2>>

\* C4: routing selection.  When some registered data source is relevant,
\* search is called only on relevant ones, at most once each and in
\* registration order, and on every relevant one once the map has ended; a
\* data source that is not relevant gets no search call and no progress event.
C4_RoutingSelection ==
    ~NoneRelevant =>
      /\ \A i \in 1..Len(invoked) : isRelevantFor[invoked[i]]
      /\ \A i, j \in 1..Len(invoked) :
           i < j => PositionIn(dataSources, invoked[i]) < PositionIn(dataSources, invoked[j])
      /\ pc \in {"await", "done"} =>
           \A ds \in Range(dataSources) : isRelevantFor[ds] => ds \in Range(invoked)
      /\ \A ds \in Range(dataSources) :
           ~isRelevantFor[ds] =>
             /\ searchPromise[ds].state = "none"
             /\ unitPc[ds] = "none"
             /\ \A k \in 1..Len(events) : events[k].source # ds

\* A finished call in which only the second of two data sources was relevant
\* and it alone was searched and reported.
C4_Witness ==
    /\ pc = "done"
    /\ Len(dataSources) = 2
    /\ ~isRelevantFor[1] /\ isRelevantFor[2]
    /\ invoked = <<2>>
    /\ Len(events) = 2

SamePair(a, b) == a.title = b.title /\ a.source = b.source

FirstIndex(seq, x) == CHOOSE i \in 1..Len(seq) : seq[i] = x /\ \A j \in 1..(i - 1) : seq[j] # x

\* The pool of the ranking example: scores 0.9, 0.5, 0.9, 0.2 and four titles.
ExampleResult(title, score) ==
    [title |-> title, source |-> <<"c">>, relevanceScore |-> score, content |-> "x"]

ExamplePool ==
    << ExampleResult(<<"r", "1">>, 9), ExampleResult(<<"r", "2">>, 5),
       ExampleResult(<<"r", "3">>, 9), ExampleResult(<<"r", "4">>, 2) >>

\* C5: ranking.  The array rankResults returns (which search() returns) holds
\* only results of the pool, in non-increasing order of relevanceScore, and
\* results with equal scores are in the order in which they first stand in
\* the pool; the pool [r1,r2,r3,r4] with scores [0.9,0.5,0.9,0.2] gives
\* [r1,r3,r2,r4].
C5_Ranking ==
    /\ rankResults(ExamplePool) =
         << ExamplePool[1], ExamplePool[3], ExamplePool[2], ExamplePool[4] >>
    /\ rankPc = "returned" =>
         /\ Range(rankRet) \subseteq Range(rankArg)
         /\ \A i, j \in 1..Len(rankRet) :
              i < j =>
                /\ rankRet[i].relevanceScore >= rankRet[j].relevanceScore
                /\ rankRet[i].relevanceScore = rankRet[j].relevanceScore =>
                     FirstIndex(rankArg, rankRet[i]) < FirstIndex(rankArg, rankRet[j])

\* A pool of three whose first result scores lowest and whose other two tie:
\* the tied two come first, in pool order.
C5_Witness ==
    /\ rankPc = "returned"
    /\ Len(rankArg) = 3
    /\ rankArg[1].relevanceScore = 5
    /\ rankArg[2].relevanceScore = 9
    /\ rankArg[3].relevanceScore = 9
    /\ rankRet = << rankArg[2], rankArg[3], rankArg[1] >>

\* The pool's positions that hold the (title, source) pair of p.
PairPositions(pool, p) == { k \in 1..Len(pool) : SamePair(pool[k], p) }

\* The earliest position among those with the largest relevanceScore.
BestPosition(pool, ks) ==
    CHOOSE k \in ks :
      \A m \in ks :
        \/ pool[m].relevanceScore < pool[k].relevanceScore
        \/ pool[m].relevanceScore = pool[k].relevanceScore /\ k <= m

\* C6: deduplication keeps the best copy.  For every (title, source) pair in
\* the pool the returned array holds exactly one result with that pair, and
\* it is the pool's highest-scored result with that pair (the earliest of
\* them when several score highest).
C6_KeepsBestCopy ==
    rankPc = "returned" =>
      \A p \in Range(rankArg) :
        LET hits == { i \in 1..Len(rankRet) : SamePair(rankRet[i], p) }
        IN  /\ Cardinality(hits) = 1
            /\ \A i \in hits :
                 rankRet[i] = rankArg[BestPosition(rankArg, PairPositions(rankArg, p))]

\* The walk of lines 77-83 with the pair (title, source) as the key.
RECURSIVE KeepFirstOfPair(_, _, _)
KeepFirstOfPair(sorted, seenPairs, unique) ==
    IF sorted = <<>> THEN unique
    ELSE LET result == Head(sorted)
             pair == << result.title, result.source >>
         IN  IF pair \notin seenPairs
             THEN KeepFirstOfPair(Tail(sorted), seenPairs \cup {pair}, Append(unique, result))
             ELSE KeepFirstOfPair(Tail(sorted), seenPairs, unique)

\* C7: the dedup key is the pair (title, source).  A ranked result is dropped
\* exactly when an earlier-ranked result has the same title and the same
\* source: the returned array is the sorted pool without those results.
C7_PairIsKey ==
    rankPc = "returned" =>
      rankRet = KeepFirstOfPair(ArraySort(rankArg), {}, <<>>)

Terminal(source) ==
    /\ searchPromise[source].state \in {"fulfilled", "rejected"}
    /\ unitPc[source] \in {"fulfilled", "rejected"}
    /\ onProgress = "callback" =>
         EventCount(source, "completed") + EventCount(source, "error") >= 1

\* C8: join-all.  Whenever search() has finished, whether returned or
\* rejected, the search of every selected data source has settled, its
\* callback has run to its end and its terminal progress event is delivered.
C8_JoinAll ==
    pc = "done" =>
      /\ jobs = <<>>
      /\ \A s \in Range(sourcesToSearch) : Terminal(s)

\* A finished call with a sink on two data sources, both completed.
C8_Witness ==
    /\ pc = "done"
    /\ onProgress = "callback"
    /\ sourcesToSearch = <<1, 2>>
    /\ Succeeded(1) /\ Succeeded(2)
    /\ StatusCount("completed") = 2

\* The statuses delivered for one data source, in delivery order.
StatusesOf(source) ==
    LET own == SelectSeq(events, LAMBDA e : e.source = source)
    IN  [k \in 1..Len(own) |-> own[k].status]

\* C9: per-backend progress protocol.  With a sink, the events of one data
\* source are at every moment a prefix of searching, then one of completed or
\* error; the searching event is there whenever search has been called on
\* the data source; and both events are there once its callback has ended,
\* hence for every selected data source once search() has finished.
C9_ProgressProtocol ==
    onProgress = "callback" =>
      \A s \in Range(dataSources) :
        /\ StatusesOf(s) \in { <<>>, <<"searching">>,
                               <<"searching", "completed">>, <<"searching", "error">> }
        /\ s \in Range(invoked) => Len(StatusesOf(s)) >= 1
        /\ unitPc[s] \in {"fulfilled", "rejected"} => Len(StatusesOf(s)) = 2
        /\ (pc = "done" /\ s \in Range(sourcesToSearch)) => Len(StatusesOf(s)) = 2

\* A finished call with a sink in which source 2 failed before source 1
\* completed.
C9_Witness ==
    /\ pc = "done"
    /\ onProgress = "callback"
    /\ sourcesToSearch = <<1, 2>>
    /\ StatusesOf(1) = <<"searching", "completed">>
    /\ StatusesOf(2) = <<"searching", "error">>
    /\ events[3].source = 2

RECURSIVE SumResultCounts(_)
SumResultCounts(evs) ==
    IF evs = <<>> THEN 0
    ELSE (IF "resultCount" \in DOMAIN Head(evs) THEN Head(evs).resultCount ELSE 0)
           + SumResultCounts(Tail(evs))

\* C10: resultCount.  A delivered event carries resultCount exactly when its
\* status is completed, and the count is the length of the array that data
\* source's search resolved with; once search() has returned with a sink,
\* the returned array is no longer than the sum of the counts.
C10_ResultCount ==
    /\ \A k \in 1..Len(events) :
         /\ "resultCount" \in DOMAIN events[k] <=> events[k].status = "completed"
         /\ events[k].status = "completed" =>
              /\ Succeeded(events[k].source)
              /\ events[k].resultCount = Len(searchPromise[events[k].source].value)
    /\ (pc = "done" /\ onProgress = "callback") =>
         Len(returned) <= SumResultCounts(events)

\* A finished call whose completed events count more results than the call
\* returned, and an error event beside them.
C10_Witness ==
    /\ pc = "done"
    /\ onProgress = "callback"
    /\ StatusCount("completed") >= 1
    /\ SumResultCounts(events) > Len(returned)
    /\ Len(returned) >= 1

\* C11: no data sources.  On an orchestrator built with an empty array,
\* search() delivers no progress event, calls no search, is never rejected,
\* can always go on until it has finished, and finishes by returning the
\* empty array, with or without a sink.
C11_NoBackends ==
    dataSources = <<>> =>
      /\ events = <<>>
      /\ invoked = <<>>
      /\ outcome # "rejected"
      /\ pc # "done" => ENABLED Next
      /\ pc = "done" => outcome = "returned" /\ returned = <<>>

\* A finished call with a sink on an orchestrator without data sources.
C11_Witness ==
    /\ dataSources = <<>>
    /\ onProgress = "callback"
    /\ pc = "done"
    /\ outcome = "returned"
    /\ returned = <<>>
    /\ events = <<>>

\* What one registered data source adds to the pool: the array its search
\* resolved with when it was searched and succeeded, nothing otherwise.
Contribution(ds) ==
    IF ds \in Range(sourcesToSearch) /\ Succeeded(ds)
    THEN searchPromise[ds].value
    ELSE <<>>

\* The contributions of the first k registered data sources, in registration
\* order.  It reads the searches' outcomes only, not the order they came in.
RECURSIVE PoolOfFirst(_)
PoolOfFirst(k) ==
    IF k = 0 THEN <<>> ELSE PoolOfFirst(k - 1) \o Contribution(dataSources[k])

\* C12: pool order is independent of completion order.  When search() has
\* returned, the pool that was ranked is the concatenation, in registration
\* order, of the arrays the selected data sources resolved with (each in its
\* own order, nothing for a failed one), and the returned array is that pool
\* ranked: both are fixed by the per-source outcomes, whatever the order in
\* which the searches settled.
C12_PoolOrder ==
    (pc = "done" /\ outcome = "returned") =>
      /\ rankArg = PoolOfFirst(Len(dataSources))
      /\ returned = rankResults(PoolOfFirst(Len(dataSources)))

\* A finished call in which source 2 completed before source 1, each with
\* its own non-empty array, and the pool still starts with the array of
\* source 1.
C12_Witness ==
    /\ pc = "done"
    /\ onProgress = "callback"
    /\ sourcesToSearch = <<1, 2>>
    /\ Succeeded(1) /\ Succeeded(2)
    /\ events[3] = [source |-> 2, status |-> "completed",
                    resultCount |-> Len(searchPromise[2].value)]
    /\ searchPromise[1].value # <<>>
    /\ searchPromise[2].value # <<>>
    /\ rankArg = searchPromise[1].value \o searchPromise[2].value
    /\ rankArg # searchPromise[2].value \o searchPromise[1].value
    /\ returned # rankResults(searchPromise[2].value \o searchPromise[1].value)

\* C13: concurrent fan-out.  Whenever search() waits (or has finished), and
\* whenever any search has settled, search has been called on every selected
\* data source; while the call waits, every search still pending can settle
\* and every queued continuation can run, whatever the state of the other
\* searches: none waits for another.
C13_FanOut ==
    /\ pc \in {"await", "done"} => invoked = sourcesToSearch
    /\ \A s \in Range(dataSources) :
         searchPromise[s].state \in {"fulfilled", "rejected"} => invoked = sourcesToSearch
    /\ \A s \in Range(sourcesToSearch) :
         (pc = "await" /\ searchPromise[s].state = "pending") => ENABLED Settle(s)
    /\ jobs # <<>> => ENABLED Resume

\* Source 1 has not finished its search; source 2, started after it, has
\* completed and its completed event is delivered.
C13_Witness ==
    /\ pc = "await"
    /\ onProgress = "callback"
    /\ invoked = <<1, 2>>
    /\ searchPromise[1].state = "pending"
    /\ unitPc[2] = "fulfilled"
    /\ EventCount(2, "completed") = 1
    /\ EventCount(1, "completed") + EventCount(1, "error") = 0

\* The relevant ones among the first k registered data sources, in order.
RECURSIVE RelevantOfFirst(_)
RelevantOfFirst(k) ==
    IF k = 0 THEN <<>>
    ELSE IF isRelevantFor[dataSources[k]]
         THEN Append(RelevantOfFirst(k - 1), dataSources[k])
         ELSE RelevantOfFirst(k - 1)

\* The data sources a call searches, from the query's relevance alone.
SearchSetOfQuery ==
    IF NoneRelevant THEN dataSources ELSE RelevantOfFirst(Len(dataSources))

\* C14: sink independence.  With and without a sink, the data sources search
\* is called on are those the query's relevance fixes (a prefix of them while
\* the map runs, all of them afterwards), the call ends returned, and the
\* returned array is the ranked pool of the per-source outcomes.  These
\* expressions read neither onProgress nor the delivered events, so two calls
\* that differ only in the sink search the same data sources and return the
\* same array in the same order.
C14_SinkIndependence ==
    /\ IsPrefix(invoked, SearchSetOfQuery)
    /\ pc \in {"await", "done"} => invoked = SearchSetOfQuery
    /\ pc = "done" =>
         /\ outcome = "returned"
         /\ returned = rankResults(PoolOfFirst(Len(dataSources)))

\* A finished call without a sink: two data sources searched, one failed,
\* results returned, nothing delivered.
C14_Witness ==
    /\ pc = "done"
    /\ onProgress = "undefined"
    /\ invoked = <<1, 2>>
    /\ Failed(1) /\ Succeeded(2)
    /\ Len(returned) = 2
    /\ events = <<>>

\* C15: formatResults on an empty array returns the fixed no-results
\* message, whatever maxResults is (left out, zero, negative or positive).
C15_EmptyInput ==
    (fmtPc = "done" /\ fmtResults = <<>>) =>
      fmtRet = [kind |-> "message", text |-> "No results found across any data sources."]

\* A finished call on the empty array with a negative maxResults.
C15_Witness ==
    /\ fmtPc = "done"
    /\ fmtResults = <<>>
    /\ fmtMaxResults.given
    /\ fmtMaxResults.value < 0
    /\ fmtRet.kind = "message"

\* The limit a finished call of formatResults worked with.
GivenLimit == IF fmtMaxResults.given THEN fmtMaxResults.value ELSE DefaultMaxResults

\* The results of a list whose source is the given one, in the list's order.
OfSource(list, source) == SelectSeq(list, LAMBDA r : r.source = source)

\* The sources of a list, each once, in the order of their first appearance.
RECURSIVE FirstAppearance(_)
FirstAppearance(list) ==
    IF list = <<>> THEN <<>>
    ELSE <<Head(list).source>>
           \o FirstAppearance(SelectSeq(Tail(list), LAMBDA r : r.source # Head(list).source))

\* Everything a summary lists, block after block.
Rendered(ret) == Flat([k \in 1..Len(ret.blocks) |-> ret.blocks[k].items])

\* C16: for every non-empty input and every limit the call returns a summary
\* whose header reports N = the length of the whole input and M = the number
\* of distinct sources among the results rendered, and M is the number of
\* blocks after the header.
C16_HeaderCounts ==
    (fmtPc = "done" /\ fmtResults # <<>>) =>
      /\ fmtRet.kind = "summary"
      /\ fmtRet.total = Len(fmtResults)
      /\ fmtRet.sources = Cardinality({ r.source : r \in Range(Rendered(fmtRet)) })
      /\ fmtRet.sources = Len(fmtRet.blocks)

\* C17: the blocks of a summary come in the order in which their sources
\* first appear in the truncated list (also for names such as "1" or "10"),
\* and a block lists its source's results in the order of that list.
C17_GroupingOrder ==
    (fmtPc = "done" /\ fmtRet.kind = "summary") =>
      LET truncated == ArraySlice(fmtResults, GivenLimit)
      IN  /\ [k \in 1..Len(fmtRet.blocks) |-> fmtRet.blocks[k].source] = FirstAppearance(truncated)
          /\ \A k \in 1..Len(fmtRet.blocks) :
               fmtRet.blocks[k].items = OfSource(truncated, fmtRet.blocks[k].source)

\* C18: for every integer limit a summary lists no more results than the
\* limit (10 when maxResults is left out), and for a limit >= 0 it lists
\* exactly the first min(limit, n) results of the input, each source's
\* results in input order.
C18_Truncation ==
    (fmtPc = "done" /\ fmtRet.kind = "summary") =>
      LET first == SubSeq(fmtResults, 1, Min(GivenLimit, Len(fmtResults)))
      IN  /\ Len(Rendered(fmtRet)) <= GivenLimit
          /\ GivenLimit >= 0 =>
               /\ Len(Rendered(fmtRet)) = Len(first)
               /\ \A src \in FormatSources :
                    OfSource(Rendered(fmtRet), src) = OfSource(first, src)

\* The route of a call that takes a throwing isRelevantFor for "not relevant".
RouteSkippingThrows ==
    LET relevant == SelectSeq(dataSources,
                              LAMBDA ds : ~relevanceThrows[ds] /\ isRelevantFor[ds])
    IN  IF Len(relevant) > 0 THEN relevant ELSE dataSources

\* C19: when the isRelevantFor of some data source throws, search() is not
\* rejected: it counts that data source as not relevant, searches the others
\* as routed, and returns the ranked results.
C19_RelevanceFailure ==
    (\E ds \in Range(dataSources) : relevanceThrows[ds]) =>
      /\ outcome # "rejected"
      /\ pc = "done" =>
           /\ outcome = "returned"
           /\ invoked = RouteSkippingThrows
           /\ returned = rankResults(Flat([k \in 1..Len(invoked) |-> Contribution(invoked[k])]))

\* The progress lines of a response that are about the given data source and
\* show the given status.
LinesOf(response, source, status) ==
    { k \in 1..Len(response.progressUpdates) :
        /\ response.progressUpdates[k].source = ShippedNames[source]
        /\ response.progressUpdates[k].status = status }

\* What the searched data sources whose vendor call answered have found.
AnsweredResults ==
    Flat([k \in 1..Len(sourcesToSearch) |->
            ShippedSearch(sourcesToSearch[k], query, vendorCall[sourcesToSearch[k]]).value])

\* C20: when the vendor call of a searched shipped data source has failed,
\* the response of search-all-sources is still the results text, built from
\* the ranked results of the other data sources, and its progress lines show
\* `error` for the failed data source and no `completed`.
C20_VisibleDegradation ==
    toolResponse.kind # "none" =>
      \A s \in Range(invoked) :
        vendorCall[s].state = "failed" =>
          /\ toolResponse.kind = "results"
          /\ fmtResults = rankResults(AnsweredResults)
          /\ LinesOf(toolResponse, s, "error") # {}
          /\ LinesOf(toolResponse, s, "completed") = {}

\* A vendor call of the finished search under study has failed: the call that
\* asks for the items, or docs.documents.get for one of the files.
SomeVendorCallFailed ==
    \/ backendVendor.state = "failed"
    \/ /\ backendSource = GoogleDocs
       /\ backendVendor.state = "answered"
       /\ \E k \in 1..Len(backendVendor.items) : backendVendor.items[k].get = "failed"

\* C21 as stated: when any vendor call made during a shipped data source's
\* search fails, the search is fulfilled, with the empty array.
C21_ContainmentAsStated ==
    (backendPc = "done" /\ SomeVendorCallFailed) =>
      backendRet = [state |-> "fulfilled", value |-> <<>>]

\* C21, amended: no failure of a vendor call escapes a shipped data source's
\* search.  When the call that asks for the items fails (for Database: any of
\* its queries, also after earlier ones have pushed results) the search
\* returns the empty array; when docs.documents.get fails for a file, Google
\* Docs still returns one result per file, the failed file's content being
\* "Unable to fetch content".
C21_Containment ==
    backendPc = "done" =>
      /\ backendRet.state = "fulfilled"
      /\ backendVendor.state = "failed" => backendRet.value = <<>>
      /\ (backendSource = GoogleDocs /\ backendVendor.state = "answered") =>
           /\ Len(backendRet.value) = Len(backendVendor.items)
           /\ \A k \in 1..Len(backendVendor.items) :
                /\ backendRet.value[k].title = backendVendor.items[k].name
                /\ backendVendor.items[k].get = "failed" =>
                     backendRet.value[k].content = "Unable to fetch content"

\* A finished Database search whose last query failed after the two before it
\* had answered.
C21_Witness ==
    /\ backendPc = "done"
    /\ backendSource = Database
    /\ backendVendor.state = "failed"
    /\ backendVendor.failsAt = 3
    /\ backendRet = [state |-> "fulfilled", value |-> <<>>]

\* C22: a connect that follows a connect, both with their vendor calls
\* succeeding, leaves the data source as the first left it, with no more pool
\* clients checked out; a disconnect that follows a disconnect succeeds and
\* leaves the data source as the first left it.
C22_LifecycleIdempotent ==
    \A i \in 1..(Len(lifecycleCalls) - 1) :
      LET first == lifecycleCalls[i]
          second == lifecycleCalls[i + 1]
      IN  (first.op = second.op /\ first.vendor = "ok" /\ second.vendor = "ok") =>
            /\ first.ok /\ second.ok
            /\ second.after = first.after

\* The data sources disconnect has been called on.
DisconnectTargets ==
    { lifecycleCalls[i].target :
        i \in { j \in 1..Len(lifecycleCalls) : lifecycleCalls[j].op = "disconnect" } }

\* C23: when the process has received SIGINT and has ended, disconnect has
\* been called on the user data source and on every registered search data
\* source, whatever the phase the signal came in and also when a disconnect
\* failed.
C23_ShutdownDisconnects ==
    (sigint /\ mainPc = "exited") =>
      /\ <<"user">> \in DisconnectTargets
      /\ \A s \in Range(dataSources) : ShippedNames[s] \in DisconnectTargets

\* The search of every selected data source has reached a terminal state.
AllSettled ==
    /\ pc \in {"await", "done"}
    /\ \A s \in Range(sourcesToSearch) :
         searchPromise[s].state \in {"fulfilled", "rejected"}

\* C24: no timeout.  Once the search of every selected data source has
\* reached a terminal state, search() eventually returns; and search() has
\* not returned as long as the search of some selected data source is
\* pending, whatever the others have done.
C24_NoTimeout ==
    /\ AllSettled ~> (pc = "done" /\ outcome = "returned")
    /\ [](pc = "done" => AllSettled)

\* search() is waiting, with the first data source's search completed and its
\* callback ended, while the second's search is still pending.
C24_Witness ==
    /\ pc = "await"
    /\ outcome = "pending"
    /\ jobs = <<>>
    /\ sourcesToSearch = <<1, 2>>
    /\ unitPc[1] = "fulfilled"
    /\ searchPromise[2].state = "pending"

\* What the selected data sources whose search was fulfilled have returned.
ReturnedByBackends ==
    UNION { Range(searchPromise[s].value) :
              s \in { t \in Range(sourcesToSearch) : searchPromise[t].state = "fulfilled" } }

\* C25: results pass through unchanged.  Every element search() returns is a
\* result some selected data source returned in this call, equal to it in
\* every field (title, source, content, url, relevanceScore, metadata); a
\* callback hands on the very array its search resolved with; and the array a
\* search resolved with is never changed afterwards.
C25_PassThrough ==
    /\ [](pc = "done" /\ outcome = "returned" =>
            \A i \in 1..Len(returned) : returned[i] \in ReturnedByBackends)
    /\ [](\A s \in Range(dataSources) :
            (searchPromise[s].state = "fulfilled" /\ unitPc[s] = "fulfilled") =>
              unitValue[s] = searchPromise[s].value)
    /\ [][\A s \in Range(dataSources) :
            searchPromise[s].state = "fulfilled" => searchPromise'[s] = searchPromise[s]]_vars

\* A finished call that returned two results in the order opposite to the one
\* their data source returned them in, the array of the data source being as
\* it was, and both results with their metadata and url.
C25_Witness ==
    /\ pc = "done"
    /\ sourcesToSearch = <<1>>
    /\ Len(searchPromise[1].value) = 2
    /\ searchPromise[1].value[1].relevanceScore < searchPromise[1].value[2].relevanceScore
    /\ returned = << searchPromise[1].value[2], searchPromise[1].value[1] >>
    /\ returned[1].metadata = "m1" /\ returned[1].url = "v"
    /\ returned[2].url = "u"

\* C26: across searches and formatResults calls the orchestrator's registered
\* data sources stay the same sequence, and the orchestrator calls connect or
\* disconnect on none of them: the only calls it makes on a data source are
\* isRelevantFor and search, the latter on selected sources only.
C26_BackendsUntouched ==
    /\ [][dataSources' = dataSources]_vars
    /\ [](lifecycleCalls = <<>>)
    /\ [](\A k \in 1..Len(invoked) :
            invoked[k] \in Range(sourcesToSearch) /\ invoked[k] \in Range(dataSources))

C26_Witness ==
    /\ searchCalls = 1
    /\ pc = "done"
    /\ fmtPc = "done"
    /\ dataSources = <<1, 2>>
    /\ invoked = <<2>>

\* The searches of the selected sources that resolved, as one array in
\* selection order.
SucceededResults ==
    Flat([k \in 1..Len(sourcesToSearch) |->
            IF searchPromise[sourcesToSearch[k]].state = "fulfilled"
            THEN searchPromise[sourcesToSearch[k]].value
            ELSE <<>>])

\* C27: a sink that throws does not affect the search: search() ends only
\* after every selected source's callback has, it returns, what it returns is
\* the ranking of the results of every source whose search resolved, and no
\* progress of status "error" is made for a source whose search resolved.
C27_SinkFailureHarmless ==
    /\ pc = "done" =>
         /\ outcome = "returned"
         /\ \A s \in Range(sourcesToSearch) : searchPromise[s].state \in {"fulfilled", "rejected"}
         /\ returned = rankResults(SucceededResults)
    /\ \A k \in 1..Len(events) :
         events[k].status = "error" => searchPromise[events[k].source].state = "rejected"

\* C28: when the Slack search answers with messages of one channel that
\* differ in their text, what search() returns holds a Slack result for each of
\* them.
C28_SlackMessagesKept ==
    (/\ pc = "done"
     /\ outcome = "returned"
     /\ Slack \in Range(sourcesToSearch)
     /\ vendorCall[Slack].state = "answered") =>
       LET messages == vendorCall[Slack].items IN
         \A i, j \in 1..Len(messages) :
           (messages[i].channel = messages[j].channel /\ messages[i].text # messages[j].text) =>
             \E k \in 1..Len(returned) :
               /\ returned[k].source = ShippedNames[Slack]
               /\ returned[k].content = messages[i].text

\* C29: once the createUser calls on one file have all returned, whatever
\* the order their reads and writes ran in, the ids they returned differ from
\* each other, the file holds each caller's new user under the id returned to
\* it, and no two users in the file have the same id.
C29_ConcurrentCreate ==
    /\ (\A c \in Callers : createPc[c] = "done") =>
         /\ \A c, d \in Callers : c # d => createRet[c] # createRet[d]
         /\ \A c \in Callers :
              \E k \in 1..Len(file) :
                file[k] = [id |-> createRet[c], name |-> createArg[c].name]
    /\ \A i, j \in 1..Len(file) : i # j => file[i].id # file[j].id

\* C30: with Slack, Google Docs, Database and Web registered, search is
\* invoked on Database, on Slack and on Google Docs for the query
\* "How many users do we have using Datadog?".
C30_DocumentedRouting ==
    (query = DocumentedQuery /\ pc \in {"await", "done"}) =>
        { Database, Slack, GoogleDocs } \subseteq Range(invoked)

====
